---- MODULE Spec2Model ----
(***************************************************************************)
(* LDD cleanup notifier (src/1.py).  The file holds two programs: the      *)
(* first (lines 1-153) transmits mail through SMTP, the second (lines      *)
(* 156-305) prints mock mail.  Both read a JSON mapping host -> record and *)
(* a CSV export of per-user host lists.                                    *)
(*                                                                         *)
(* Text is modelled as a sequence of one-character strings, so that        *)
(* strip / replace / split / lower / strptime are computed, not assumed.   *)
(* A Python value is a tagged record: Str(s) or NoneVal.  A dict is a      *)
(* function whose DOMAIN is the set of keys present.                       *)
(*                                                                         *)
(* datetime.today() is read once per record; the model fixes the clock for *)
(* the duration of one run (variable today).                               *)
(***************************************************************************)
EXTENDS Integers, Sequences, FiniteSets, TLC

VARIABLES
    prog,       \* which of the two programs of src/1.py runs (1 or 2)
    pc,         \* position of the run
    today,      \* datetime.today(): [year, month, day, second]
    json_file,  \* INPUT_JSON: [readable |-> BOOLEAN, content |-> sequence of records]
    data,       \* the loaded JSON mapping, as its sequence of values in file order
    gi,         \* grouping loop: index of the next record of data
    user_map,   \* defaultdict(list), insertion ordered: sequence of [email, ldds]
    ui,         \* notify loop: index of the current group of user_map
    li,         \* notify loop: index of the current record within the group
    sent,       \* calls of send_email so far, in order
    csv_file,   \* INPUT_CSV: [readable |-> BOOLEAN, rows |-> DictReader rows]
    ri,         \* loader loop: index of the next row
    users,      \* dict user -> hostnames, insertion ordered: sequence of [user, hostnames]
    wi,         \* writer loop: index of the next entry of users
    out,        \* content of the output artifact, a sequence of text pieces
    prev_out,   \* history: content of the artifact when the previous run ended
    runs,       \* number of times the artifact was opened for writing
    probe,      \* staleness check alone: how the record's date was chosen
                \*   [kind |-> "absent" | "dated" | "garbage" | "none", days |-> today - date]
    result      \* staleness check alone: what should_notify returned

vars == <<prog, pc, today, json_file, data, gi, user_map, ui, li, sent,
          csv_file, ri, users, wi, out, prev_out, runs, probe, result>>

(***************************************************************************)
(* Python values and text                                                  *)
(***************************************************************************)
NoneVal == [t |-> "none"]
Str(s) == [t |-> "str", s |-> s]
IsStr(v) == v.t = "str"

\* Python truthiness of None and of str
Truthy(v) == IsStr(v) /\ v.s # <<>>

\* dict.get(key) and dict.get(key, default)
Get(d, k) == IF k \in DOMAIN d THEN d[k] ELSE NoneVal
GetDefault(d, k, default) == IF k \in DOMAIN d THEN d[k] ELSE default

Whitespace == {" ", "\t", "\n", "\r"}

UpperChars == <<"A","B","C","D","E","F","G","H","I","J","K","L","M",
                "N","O","P","Q","R","S","T","U","V","W","X","Y","Z">>
LowerChars == <<"a","b","c","d","e","f","g","h","i","j","k","l","m",
                "n","o","p","q","r","s","t","u","v","w","x","y","z">>

\* str.lower()
LowerChar(c) ==
    IF \E i \in 1..Len(UpperChars) : UpperChars[i] = c
    THEN LowerChars[CHOOSE i \in 1..Len(UpperChars) : UpperChars[i] = c]
    ELSE c
Lower(s) == [i \in 1..Len(s) |-> LowerChar(s[i])]

\* str.strip()
RECURSIVE LStrip(_)
LStrip(s) == IF s # <<>> /\ Head(s) \in Whitespace THEN LStrip(Tail(s)) ELSE s
RECURSIVE RStrip(_)
RStrip(s) ==
    IF s # <<>> /\ s[Len(s)] \in Whitespace THEN RStrip(SubSeq(s, 1, Len(s) - 1)) ELSE s
Strip(s) == RStrip(LStrip(s))

\* str.replace(c, "")
Remove(s, c) == SelectSeq(s, LAMBDA x : x # c)

\* The common loop of str.split: cut s at the characters of seps.  split(",")
\* keeps empty fields, split() (whitespace) drops them.
RECURSIVE SplitAcc(_, _, _, _, _, _)
SplitAcc(s, i, cur, acc, seps, keepEmpty) ==
    LET flushed == IF keepEmpty \/ cur # <<>> THEN Append(acc, cur) ELSE acc
    IN  IF i > Len(s) THEN flushed
        ELSE IF s[i] \in seps THEN SplitAcc(s, i + 1, <<>>, flushed, seps, keepEmpty)
        ELSE SplitAcc(s, i + 1, Append(cur, s[i]), acc, seps, keepEmpty)
SplitWhitespace(s) == SplitAcc(s, 1, <<>>, <<>>, Whitespace, FALSE)
SplitComma(s) == SplitAcc(s, 1, <<>>, <<>>, {","}, TRUE)

\* sep.join(list)
RECURSIVE Join(_, _)
Join(list, sep) ==
    IF list = <<>> THEN <<>>
    ELSE IF Len(list) = 1 THEN list[1]
    ELSE list[1] \o sep \o Join(Tail(list), sep)

(***************************************************************************)
(* Calendar: datetime.strptime(s, "%Y-%m-%d") and datetime subtraction     *)
(***************************************************************************)
Digits == <<"0","1","2","3","4","5","6","7","8","9">>
IsDigit(c) == \E i \in 1..10 : Digits[i] = c
DigitVal(c) == (CHOOSE i \in 1..10 : Digits[i] = c) - 1

IsLeap(y) == y % 4 = 0 /\ (y % 100 # 0 \/ y % 400 = 0)
DaysInMonth(y, m) ==
    IF m = 2 THEN (IF IsLeap(y) THEN 29 ELSE 28)
    ELSE IF m \in {4, 6, 9, 11} THEN 30 ELSE 31

\* datetime's proleptic Gregorian ordinal (0001-01-01 is day 1)
DaysBeforeYear(y) ==
    LET p == y - 1 IN p * 365 + (p \div 4) - (p \div 100) + (p \div 400)
RECURSIVE DaysBeforeMonth(_, _)
DaysBeforeMonth(y, m) ==
    IF m = 1 THEN 0 ELSE DaysBeforeMonth(y, m - 1) + DaysInMonth(y, m - 1)
ToOrdinal(y, m, d) == DaysBeforeYear(y) + DaysBeforeMonth(y, m) + d

\* One numeric field of the format.  strptime's patterns:
\*   %m  1[0-2]|0[1-9]|[1-9]          %d  3[0-1]|[1-2]\d|0[1-9]|[1-9]| [1-9]
\* -1 when the field does not match.
FieldValue(f, max, spaceOk) ==
    IF Len(f) = 1 /\ IsDigit(f[1]) /\ DigitVal(f[1]) >= 1 THEN DigitVal(f[1])
    ELSE IF Len(f) = 2 /\ IsDigit(f[1]) /\ IsDigit(f[2])
            /\ 10 * DigitVal(f[1]) + DigitVal(f[2]) \in 1..max
         THEN 10 * DigitVal(f[1]) + DigitVal(f[2])
    ELSE IF spaceOk /\ Len(f) = 2 /\ f[1] = " " /\ IsDigit(f[2]) /\ DigitVal(f[2]) >= 1
         THEN DigitVal(f[2])
    ELSE -1

\* datetime.strptime(s, "%Y-%m-%d"): [ok |-> TRUE, ord |-> ordinal of the
\* date at midnight], or [ok |-> FALSE] for ValueError (no match, unconverted
\* data, year 0, day out of range for the month).
Strptime(s) ==
    LET fields == SplitAcc(s, 1, <<>>, <<>>, {"-"}, TRUE)
        bad    == [ok |-> FALSE, ord |-> 0]
    IN  IF Len(fields) # 3 THEN bad
        ELSE LET yf == fields[1]
                 m  == FieldValue(fields[2], 12, FALSE)
                 d  == FieldValue(fields[3], 31, TRUE)
             IN  IF Len(yf) # 4 \/ (\E i \in 1..Len(yf) : ~IsDigit(yf[i])) THEN bad
                 ELSE LET y == 1000 * DigitVal(yf[1]) + 100 * DigitVal(yf[2])
                               + 10 * DigitVal(yf[3]) + DigitVal(yf[4])
                      IN  IF m = -1 \/ d = -1 \/ y < 1 THEN bad
                          ELSE IF d > DaysInMonth(y, m) THEN bad
                          ELSE [ok |-> TRUE, ord |-> ToOrdinal(y, m, d)]

SecondsPerDay == 86400

\* (datetime.today() - last_login).days: timedelta normalises to
\* 0 <= seconds < 86400, so days is the floor.
DeltaDays(now, lastOrd) ==
    ((ToOrdinal(now.year, now.month, now.day) - lastOrd) * SecondsPerDay + now.second)
        \div SecondsPerDay

DAYS_LIMIT == 14

\* Off-by-one variant of the comparison: 14 days already counts as stale.
AtLeastLimit(days) == days >= DAYS_LIMIT

\* The comparison of line 56 / 204.
OverLimit(days) == days > DAYS_LIMIT

\* Variant of the except clause that fails closed.
OnParseErrorFalse == FALSE

\* What the except clause of should_notify returns (line 58 / 206).
OnParseError == TRUE

\* should_notify(ldd), with the clock reading passed in.  The except clause
\* catches every Exception, so the function never raises: raised is FALSE on
\* every path and is part of the result only to state that.
should_notify(ldd, now) ==
    LET last_login_str == Get(ldd, "citrix_last_connection_date")
    IN  IF ~Truthy(last_login_str) THEN [ret |-> TRUE, raised |-> FALSE]
        ELSE LET p == Strptime(last_login_str.s)
             IN  IF p.ok
                 THEN [ret |-> OverLimit(DeltaDays(now, p.ord)), raised |-> FALSE]
                 ELSE [ret |-> OnParseError, raised |-> FALSE]

(***************************************************************************)
(* Owner email resolution and the structured pipeline                      *)
(***************************************************************************)
HostA == <<"h","o","s","t","A">>
HostB == <<"h","o","s","t","B">>
HostC == <<"h","o","s","t","C">>
Unknown == <<"U","n","k","n","o","w","n">>
DefaultUser == <<"U","s","e","r">>
MailDomain == <<"@","t","r","o","w","e","p","r","i","c","e",".","c","o","m">>

\* A JSON value that is a mapping (a Python dict); JSON null loads as None.
IsDict(info) == "t" \notin DOMAIN info

\* Variant of get_user_email that takes the name parts in the order written
\* (last.first).
get_user_email_swapped(vdi_entry) ==
    LET email == Get(vdi_entry, "vdi_owner_email")
        name  == Get(vdi_entry, "vdi_owner_name")
    IN  IF Truthy(email) THEN email
        ELSE IF Truthy(name)
        THEN LET parts == SplitWhitespace(Remove(Strip(name.s), ","))
             IN  IF Len(parts) >= 2
                 THEN Str(Lower(parts[1]) \o <<".">> \o Lower(parts[2]) \o MailDomain)
                 ELSE NoneVal
        ELSE NoneVal

\* get_user_email(vdi_entry), first program.
get_user_email(vdi_entry) ==
    LET email == Get(vdi_entry, "vdi_owner_email")
        name  == Get(vdi_entry, "vdi_owner_name")
    IN  IF Truthy(email) THEN email
        ELSE IF Truthy(name)
        THEN LET parts == SplitWhitespace(Remove(Strip(name.s), ","))
             IN  IF Len(parts) >= 2
                 THEN Str(Lower(parts[2]) \o <<".">> \o Lower(parts[1]) \o MailDomain)
                 ELSE NoneVal
        ELSE NoneVal

\* The key a record is grouped under: get_user_email in the first program
\* (line 100), the explicit email attribute alone in the second (line 218).
OwnerKey(p, info) ==
    IF p = 1 THEN get_user_email(info) ELSE Get(info, "vdi_owner_email")

\* user_map[email].append(info): the group's list grows, a new key goes last.
MapAppend(m, email, idx) ==
    IF \E k \in 1..Len(m) : m[k].email = email
    THEN [k \in 1..Len(m) |->
            IF m[k].email = email THEN [m[k] EXCEPT !.ldds = Append(@, idx)] ELSE m[k]]
    ELSE Append(m, [email |-> email, ldds |-> <<idx>>])

\* Variant of the group-size test that lets a single record through.
AtLeastOne(ldds) == ~(Len(ldds) < 1)

\* The test of line 105 / 224, negated: the group is processed.
MoreThanOne(ldds) == ~(Len(ldds) <= 1)

\* Variant of the call that addresses the record's own email attribute in
\* both programs, also where the owner was resolved from the name.
MessageRawEmail(p, email, ldd, idx, ok) ==
    [ user_email      |-> Get(ldd, "vdi_owner_email"),
      user_name       |-> GetDefault(ldd, "vdi_owner_name", Str(DefaultUser)),
      hostname        |-> GetDefault(ldd, "hostname", Str(Unknown)),
      last_login_date |-> GetDefault(ldd, "citrix_last_connection_date", Str(Unknown)),
      home_dir        |-> GetDefault(ldd, "home_directory", Str(Unknown)),
      rec             |-> idx,
      delivered       |-> ok ]

\* The arguments of the send_email call (lines 109-115 / 229-235).  rec is the
\* identity of the record the call is made for; delivered is whether the
\* transmission succeeded.
Message(p, email, ldd, idx, ok) ==
    [ user_email      |-> IF p = 1 THEN email ELSE Get(ldd, "vdi_owner_email"),
      user_name       |-> GetDefault(ldd, "vdi_owner_name", Str(DefaultUser)),
      hostname        |-> GetDefault(ldd, "hostname", Str(Unknown)),
      last_login_date |-> GetDefault(ldd, "citrix_last_connection_date", Str(Unknown)),
      home_dir        |-> GetDefault(ldd, "home_directory", Str(Unknown)),
      rec             |-> idx,
      delivered       |-> ok ]

\* Whether the SMTP transmission can fail: the first program connects to the
\* relay (lines 43-48), the second only prints (lines 191-195).
SendOutcomes(p) == IF p = 1 THEN {TRUE, FALSE} ELSE {TRUE}

\* Variant of send_email without the try: a failed transmission propagates.
AfterSendPropagates(ok) == IF ok THEN "notify" ELSE "crashed"

\* Where the notify loop stands after send_email returns: the except clause
\* of line 47 swallows a failed transmission.
AfterSend(ok) == "notify"

jsonVars == <<json_file, data, gi, user_map, ui, li, sent>>
csvVars == <<csv_file, ri, users, wi, out, prev_out, runs>>
unitVars == <<probe, result>>

\* load_json (lines 60-66): an unreadable file gives {}.  In the second
\* program (lines 209-211, 293-298) the error reaches the top-level handler
\* and the structured pipeline is over.
LoadJson ==
    /\ pc = "start"
    /\ IF json_file.readable
       THEN data' = json_file.content /\ pc' = "group"
       ELSE IF prog = 1
            THEN data' = <<>> /\ pc' = "group"
            ELSE data' = <<>> /\ pc' = "load_csv"
    /\ gi' = 1 /\ user_map' = <<>> /\ sent' = <<>>
    /\ UNCHANGED <<prog, today, json_file, ui, li>>
    /\ UNCHANGED csvVars /\ UNCHANGED unitVars

\* One iteration of the grouping loop (lines 99-102 / 217-221).  A value
\* that is no mapping has no .get: AttributeError.  The first program has no
\* handler around notify_json_users (line 150), the second catches it at
\* line 297 and goes on to the CSV.
GroupStep ==
    /\ pc = "group"
    /\ gi <= Len(data)
    /\ LET info == data[gi]
       IN  IF ~IsDict(info)
           THEN /\ pc' = IF prog = 1 THEN "crashed" ELSE "load_csv"
                /\ UNCHANGED <<gi, user_map>>
           ELSE /\ LET email == OwnerKey(prog, info)
                   IN  user_map' = IF Truthy(email) THEN MapAppend(user_map, email, gi)
                                   ELSE user_map
                /\ gi' = gi + 1
                /\ pc' = pc
    /\ UNCHANGED <<prog, today, json_file, data, ui, li, sent>>
    /\ UNCHANGED csvVars /\ UNCHANGED unitVars

GroupEnd ==
    /\ pc = "group"
    /\ gi > Len(data)
    /\ pc' = "notify"
    /\ ui' = 1 /\ li' = 1
    /\ UNCHANGED <<prog, today, json_file, data, gi, user_map, sent>>
    /\ UNCHANGED csvVars /\ UNCHANGED unitVars

\* One iteration of the notify loops (lines 104-115 / 223-235).
NotifyStep ==
    /\ pc = "notify"
    /\ ui <= Len(user_map)
    /\ LET g == user_map[ui]
       IN  IF ~MoreThanOne(g.ldds) \/ li > Len(g.ldds)
           THEN /\ ui' = ui + 1 /\ li' = 1
                /\ UNCHANGED <<sent, pc>>
           ELSE LET ldd == data[g.ldds[li]]
                IN  IF should_notify(ldd, today).ret
                    THEN \E ok \in SendOutcomes(prog) :
                            /\ sent' = Append(sent, Message(prog, g.email, ldd, g.ldds[li], ok))
                            /\ pc' = AfterSend(ok)
                            /\ li' = li + 1 /\ ui' = ui
                    ELSE /\ li' = li + 1 /\ ui' = ui
                         /\ UNCHANGED <<sent, pc>>
    /\ UNCHANGED <<prog, today, json_file, data, gi, user_map>>
    /\ UNCHANGED csvVars /\ UNCHANGED unitVars

NotifyEnd ==
    /\ pc = "notify"
    /\ ui > Len(user_map)
    /\ pc' = "load_csv"
    /\ UNCHANGED <<prog, today>> /\ UNCHANGED jsonVars
    /\ UNCHANGED csvVars /\ UNCHANGED unitVars

(***************************************************************************)
(* The tabular pipeline                                                    *)
(***************************************************************************)
\* The hostname list of a row (line 76 / 246).
Hostnames(hostnames_raw) ==
    LET stripped == [k \in 1..Len(SplitComma(hostnames_raw)) |-> Strip(SplitComma(hostnames_raw)[k])]
    IN  SelectSeq(stripped, LAMBDA h : h # <<>>)

\* The test of line 77 / 247.
Qualifies(user, hostnames) == user # <<>> /\ Len(hostnames) > 1

\* users[user] = hostnames: an existing key keeps its place.
DictSet(d, user, hostnames) ==
    IF \E k \in 1..Len(d) : d[k].user = user
    THEN [k \in 1..Len(d) |-> IF d[k].user = user THEN [d[k] EXCEPT !.hostnames = hostnames] ELSE d[k]]
    ELSE Append(d, [user |-> user, hostnames |-> hostnames])

\* A DictReader row on which lines 74-76 raise: a short row gives None for
\* the missing field, and None has neither .strip nor .split.
RowRaises(row) ==
    \/ ~IsStr(GetDefault(row, "User", Str(<<>>)))
    \/ ~IsStr(GetDefault(row, "Hostname List", Str(<<>>)))

\* One iteration of the row loop of load_csv_users / load_ldd_users_from_csv
\* (lines 73-78 / 243-248).
LoadCsvRow ==
    /\ pc = "load_csv"
    /\ csv_file.readable
    /\ ri <= Len(csv_file.rows)
    /\ LET row == csv_file.rows[ri]
       IN  IF RowRaises(row)
           THEN /\ pc' = "loaded"   \* the try of line 70 / 240 encloses the loop
                /\ ri' = ri + 1
                /\ UNCHANGED users
           ELSE LET user      == Strip(GetDefault(row, "User", Str(<<>>)).s)
                    hostnames == Hostnames(GetDefault(row, "Hostname List", Str(<<>>)).s)
                IN  /\ users' = IF Qualifies(user, hostnames)
                                THEN DictSet(users, user, hostnames) ELSE users
                    /\ ri' = ri + 1
                    /\ pc' = pc
    /\ UNCHANGED <<prog, today, csv_file, wi, out, prev_out, runs>>
    /\ UNCHANGED jsonVars /\ UNCHANGED unitVars

\* The loop ends, or open() failed and the except clause ran with users = {}.
LoadCsvEnd ==
    /\ pc = "load_csv"
    /\ ~csv_file.readable \/ ri > Len(csv_file.rows)
    /\ pc' = "loaded"
    /\ UNCHANGED <<prog, today>> /\ UNCHANGED jsonVars
    /\ UNCHANGED csvVars /\ UNCHANGED unitVars

\* The fixed text of the message (lines 121-140 / 257-276); piece 3 holds
\* the arrow character of line 127, written here in ASCII.
Piece1 == "--- EMAIL TO: "
Piece2 == " ---\nSubject: LDD Cleanup Action Required\n\nDear "
Piece3 == ",\n\nOur monthly audit shows you currently have multiple Linux Developer Desktops (LDDs) assigned:\n-> Hostnames: "
Piece4 == "\n\nAs part of general housekeeping, users are allowed only one LDD by default. \nPlease review your LDD usage and remove any that are not required.\n\nIf there is a justified requirement, please inform the support team.\n\nOtherwise, kindly raise a request to delete the extra LDDs and clean up any unnecessary files from your NFS home directory.\n\nThank you for your cooperation.\n\nRegards,  \nInfraOps Team\n"
Separator == "\n\n"

\* generate_email(user, hostnames) / the f-string of line 121.
generate_email(user, hostnames) ==
    <<Piece1>> \o user \o <<Piece2>> \o user \o <<Piece3>>
        \o Join(hostnames, <<",", " ">>) \o <<Piece4>>

\* Variant that opens the artifact for appending.
OpenedForAppend(old) == old

\* The file content open(output_file, "w") starts from (line 118 / 280).
Opened(old) == <<>>

WriteOpen ==
    /\ pc = "loaded"
    /\ out' = Opened(out)
    /\ runs' = runs + 1
    /\ wi' = 1
    /\ pc' = "writing"
    /\ UNCHANGED <<prog, today, csv_file, ri, users, prev_out>>
    /\ UNCHANGED jsonVars /\ UNCHANGED unitVars

\* f.write(email_body + "\n\n") (line 142 / 285).
WriteBlock ==
    /\ pc = "writing"
    /\ wi <= Len(users)
    /\ out' = out \o generate_email(users[wi].user, users[wi].hostnames) \o <<Separator>>
    /\ wi' = wi + 1
    /\ UNCHANGED <<prog, pc, today, csv_file, ri, users, prev_out, runs>>
    /\ UNCHANGED jsonVars /\ UNCHANGED unitVars

WriteEnd ==
    /\ pc = "writing"
    /\ wi > Len(users)
    /\ pc' = "done"
    /\ UNCHANGED <<prog, today>> /\ UNCHANGED jsonVars
    /\ UNCHANGED csvVars /\ UNCHANGED unitVars

\* Largest number of times the tabular pipeline is run on the same input.
MaxRuns == 3

\* The tabular pipeline is run again on the unchanged input file.
Rerun ==
    /\ pc = "done"
    /\ runs < MaxRuns
    /\ pc' = "load_csv"
    /\ ri' = 1 /\ users' = <<>> /\ wi' = 1
    /\ prev_out' = out
    /\ UNCHANGED <<prog, today, csv_file, out, runs>>
    /\ UNCHANGED jsonVars /\ UNCHANGED unitVars

(***************************************************************************)
(* The staleness check alone: should_notify applied to one record whose    *)
(* date is a known number of calendar days from today.                     *)
(***************************************************************************)
\* Largest age, in days, of a generated last-connection date.
MaxAge == 16
\* Largest distance, in days, of a generated date in the future.
MaxAhead == 2

\* Walking the calendar one day at a time (independent of the ordinal).
PrevDay(c) ==
    IF c.day > 1 THEN [c EXCEPT !.day = c.day - 1]
    ELSE IF c.month > 1
         THEN [year |-> c.year, month |-> c.month - 1, day |-> DaysInMonth(c.year, c.month - 1)]
    ELSE [year |-> c.year - 1, month |-> 12, day |-> 31]
NextDay(c) ==
    IF c.day < DaysInMonth(c.year, c.month) THEN [c EXCEPT !.day = c.day + 1]
    ELSE IF c.month < 12 THEN [year |-> c.year, month |-> c.month + 1, day |-> 1]
    ELSE [year |-> c.year + 1, month |-> 1, day |-> 1]
RECURSIVE DaysAgo(_, _)
DaysAgo(c, k) ==
    IF k = 0 THEN c
    ELSE IF k > 0 THEN DaysAgo(PrevDay(c), k - 1)
    ELSE DaysAgo(NextDay(c), k + 1)

\* strftime("%Y-%m-%d"), and the same date written without zero padding,
\* which strptime also accepts.
Two(n) == <<Digits[(n \div 10) + 1], Digits[(n % 10) + 1]>>
Loose(n) == IF n < 10 THEN <<Digits[n + 1]>> ELSE Two(n)
Four(n) == Two(n \div 100) \o Two(n % 100)
FormatPadded(c) == Four(c.year) \o <<"-">> \o Two(c.month) \o <<"-">> \o Two(c.day)
FormatLoose(c) == Four(c.year) \o <<"-">> \o Loose(c.month) \o <<"-">> \o Loose(c.day)

\* Reference dates: after a leap February, after a common February, after a
\* new year, after the February of a century year that is not leap.
Calendars ==
    { [year |-> 2024, month |-> 3, day |-> 10], [year |-> 2023, month |-> 3, day |-> 5],
      [year |-> 2024, month |-> 1, day |-> 7],  [year |-> 2100, month |-> 3, day |-> 8] }
DayTimes == {0, 1, 86399}
Clocks == { [year |-> c.year, month |-> c.month, day |-> c.day, second |-> s] :
            c \in Calendars, s \in DayTimes }

\* Strings that are no date in the form YYYY-MM-DD.
GarbageDates ==
    { <<>>,
      <<"a","b","c">>,
      <<"2","0","2","4","/","0","3","/","0","1">>,
      <<"2","0","2","4","-","0","2","-","3","0">>,
      <<"2","0","2","3","-","0","2","-","2","9">>,
      <<"2","0","2","4","-","1","3","-","0","1">>,
      <<"2","0","2","4","0","3","0","1">>,
      <<"2","0","2","4","-","0","3","-","0","1"," ">>,
      <<"0","0","0","0","-","0","1","-","0","1">>,
      <<"2","4","-","0","3","-","0","1">>,
      <<"2","0","2","4","-","0","0","-","1","0">>,
      <<"2","0","2","4","-","0","3","-","0","0">>,
      <<"2","0","2","4","-","0","3","-","1","x">> }

\* The probes: (record, how its date was chosen), for a given clock.
Probes(now) ==
    LET cal == [year |-> now.year, month |-> now.month, day |-> now.day]
    IN  { [ldd |-> [hostname |-> Str(HostA)], kind |-> "absent", days |-> 0],
          [ldd |-> [hostname |-> Str(HostA), citrix_last_connection_date |-> NoneVal],
           kind |-> "absent", days |-> 0] }
        \cup { [ldd |-> [hostname |-> Str(HostA), citrix_last_connection_date |-> Str(g)],
                kind |-> "garbage", days |-> 0] : g \in GarbageDates }
        \cup { [ldd |-> [hostname |-> Str(HostA),
                         citrix_last_connection_date |-> Str(FormatPadded(DaysAgo(cal, k)))],
                kind |-> "dated", days |-> k] : k \in (0 - MaxAhead)..MaxAge }
        \cup { [ldd |-> [hostname |-> Str(HostA),
                         citrix_last_connection_date |-> Str(FormatLoose(DaysAgo(cal, k)))],
                kind |-> "dated", days |-> k] : k \in (0 - MaxAhead)..MaxAge }

NoFile == [readable |-> FALSE, content |-> <<>>]
NoCsv == [readable |-> FALSE, rows |-> <<>>]
NoResult == [ret |-> FALSE, raised |-> FALSE]

InitStale ==
    /\ prog \in {1, 2}
    /\ pc = "eval"
    /\ today \in Clocks
    /\ \E p \in Probes(today) :
          /\ data = <<p.ldd>>
          /\ probe = [kind |-> p.kind, days |-> p.days]
    /\ json_file = NoFile
    /\ gi = 1 /\ user_map = <<>> /\ ui = 1 /\ li = 1 /\ sent = <<>>
    /\ csv_file = NoCsv
    /\ ri = 1 /\ users = <<>> /\ wi = 1 /\ out = <<>> /\ prev_out = <<>> /\ runs = 0
    /\ result = NoResult

\* One call of should_notify (lines 50-58 / 198-206).
EvalStale ==
    /\ pc = "eval"
    /\ result' = should_notify(data[1], today)
    /\ pc' = "evaluated"
    /\ UNCHANGED <<prog, today, json_file, data, gi, user_map, ui, li, sent,
                   csv_file, ri, users, wi, out, prev_out, runs, probe>>

NextStale == EvalStale

SpecStale == InitStale /\ [][NextStale]_vars

\* C3: for a record whose last-connection date parses as YYYY-MM-DD,
\* should_notify returns true iff the number of days from that date to the
\* reference date is strictly greater than 14 (14 days: false; 15 days: true).
StaleIffMoreThan14Days ==
    (pc = "evaluated" /\ probe.kind = "dated") =>
        /\ Strptime(data[1].citrix_last_connection_date.s).ok
        /\ result.ret = (probe.days > 14)
        /\ ~result.raised

\* C3 witness: a date exactly 14 days back, checked late in the day, is not stale.
ExactlyFourteenDaysNotStale ==
    /\ pc = "evaluated" /\ probe.kind = "dated" /\ probe.days = 14
    /\ today.second = 86399
    /\ result.ret = FALSE

\* C4: for a record whose last-connection date is absent, and for a record
\* whose date string cannot be parsed as YYYY-MM-DD, should_notify returns
\* true and raises no error.
FailsOpen ==
    (pc = "evaluated" /\ probe.kind \in {"absent", "garbage"}) =>
        (result.ret = TRUE /\ ~result.raised)

\* C4 witness: a date string that is no calendar date was evaluated as stale.
UnparseableDateEvaluated ==
    /\ pc = "evaluated" /\ probe.kind = "garbage"
    /\ data[1].citrix_last_connection_date.s # <<>>
    /\ ~Strptime(data[1].citrix_last_connection_date.s).ok
    /\ result.ret = TRUE

(***************************************************************************)
(* The whole program: structured pipeline, then tabular pipeline           *)
(***************************************************************************)
JaneEmail == <<"j","a","n","e",".","s","m","i","t","h","@","t","r","o","w","e","p","r","i","c","e",".","c","o","m">>
BobEmail == <<"B","o","b","@","x",".","o","r","g">>
SmithJane == <<"S","m","i","t","h",","," ","J","a","n","e">>
Madonna == <<"M","a","d","o","n","n","a">>
HomeJs == <<"/","h","o","m","e","/","j","s">>
Alice == <<"a","l","i","c","e">>
TwoHosts == <<"h","o","s","t","A",","," ","h","o","s","t","B">>

\* Longest structured input.
MaxRecords == 3

\* The clock of a whole-program run.
RunClock == [year |-> 2024, month |-> 3, day |-> 10, second |-> 1]
RunDay == [year |-> 2024, month |-> 3, day |-> 10]
Stale20 == Str(FormatPadded(DaysAgo(RunDay, 20)))
Fresh14 == Str(FormatPadded(DaysAgo(RunDay, 14)))

\* Values of the structured input: six records and a JSON null.
Records ==
    { [vdi_owner_email |-> Str(JaneEmail), vdi_owner_name |-> Str(SmithJane),
       hostname |-> Str(HostA)],
      [vdi_owner_email |-> Str(JaneEmail), hostname |-> Str(HostB),
       citrix_last_connection_date |-> Stale20, home_directory |-> Str(HomeJs)],
      [vdi_owner_name |-> Str(SmithJane), hostname |-> Str(HostC)],
      [vdi_owner_name |-> Str(Madonna), hostname |-> Str(HostA),
       citrix_last_connection_date |-> Str(<<"a","b","c">>)],
      [vdi_owner_email |-> Str(BobEmail), citrix_last_connection_date |-> Fresh14],
      [vdi_owner_email |-> Str(BobEmail), hostname |-> Str(HostC),
       citrix_last_connection_date |-> Stale20],
      NoneVal }

SeqsUpTo(S, n) == UNION { [1..k -> S] : k \in 0..n }

JsonFiles ==
    {NoFile} \cup { [readable |-> TRUE, content |-> c] : c \in SeqsUpTo(Records, MaxRecords) }
\* A DictReader row of a file whose header is User,Hostname List.
CsvRow(user, hostname_list) == ("User" :> user) @@ ("Hostname List" :> hostname_list)

\* The tabular input of a whole-program run (the tabular pipeline is
\* examined on its own, on more files, below).
CsvSamples ==
    { [readable |-> TRUE, rows |-> << CsvRow(Str(Alice), Str(TwoHosts)) >>] }

Init ==
    /\ prog \in {1, 2}
    /\ pc = "start"
    /\ today = RunClock
    /\ json_file \in JsonFiles
    /\ data = <<>> /\ gi = 1 /\ user_map = <<>> /\ ui = 1 /\ li = 1 /\ sent = <<>>
    /\ csv_file \in CsvSamples
    /\ ri = 1 /\ users = <<>> /\ wi = 1 /\ out = <<>> /\ prev_out = <<>> /\ runs = 0
    /\ probe = [kind |-> "none", days |-> 0]
    /\ result = NoResult

Next ==
    \/ LoadJson
    \/ GroupStep
    \/ GroupEnd
    \/ NotifyStep
    \/ NotifyEnd
    \/ LoadCsvRow
    \/ LoadCsvEnd
    \/ WriteOpen
    \/ WriteBlock
    \/ WriteEnd

Spec == Init /\ [][Next]_vars

\* The process is over: it ran to the end, or an exception nobody caught ended it.
Terminated == pc \in {"done", "crashed"}

\* notify_json_users / notify_users_from_json returned normally.
StructuredCompleted ==
    /\ pc \in {"load_csv", "loaded", "writing", "done"}
    /\ gi > Len(data)

\* The owner key of every record of the input (None for a value that is no
\* mapping, on which resolution raises); the keys of the record shapes are
\* tabulated once.
OwnerTable ==
    [ p \in {1, 2} |-> [ r \in Records \ {NoneVal} |-> OwnerKey(p, r) ] ]
Owners ==
    [ i \in 1..Len(data) |-> IF IsDict(data[i]) THEN OwnerTable[prog][data[i]] ELSE NoneVal ]
GroupOf(own, i) == { j \in DOMAIN own : Truthy(own[j]) /\ own[j] = own[i] }
Eligible(own, i) ==
    /\ Truthy(own[i])
    /\ Cardinality(GroupOf(own, i)) > 1
    /\ should_notify(data[i], today).ret
CallsFor(i) == { k \in 1..Len(sent) : sent[k].rec = i }

\* C1: when the structured pipeline has run, send_email was called exactly
\* once for every record whose owner resolves, whose owner's group holds
\* more than one record (stale or not) and which passes should_notify, and
\* for no other record; each call is addressed to the record's resolved
\* owner email and names that record's own hostname.
OneMessagePerEligibleRecord ==
    StructuredCompleted =>
        LET own == Owners
        IN  /\ \A i \in 1..Len(data) :
                  Cardinality(CallsFor(i)) = IF Eligible(own, i) THEN 1 ELSE 0
            /\ \A k \in 1..Len(sent) :
                  /\ sent[k].rec \in 1..Len(data)
                  /\ sent[k].user_email = own[sent[k].rec]
                  /\ sent[k].hostname = GetDefault(data[sent[k].rec], "hostname", Str(Unknown))

\* C1 witness: two records of jane.smith, one with no last-connection date
\* and one 20 days stale, gave exactly two messages to her, one per hostname.
TwoStaleRecordsTwoMessages ==
    /\ StructuredCompleted
    /\ prog = 1
    /\ Len(data) = 2
    /\ "citrix_last_connection_date" \notin DOMAIN data[1]
    /\ Get(data[2], "citrix_last_connection_date") = Stale20
    /\ Len(sent) = 2
    /\ sent[1].user_email = Str(JaneEmail) /\ sent[2].user_email = Str(JaneEmail)
    /\ sent[1].hostname = Str(HostA) /\ sent[2].hostname = Str(HostB)

\* C2: no message is ever sent to an owner email whose group holds exactly
\* one record, whatever that record's last-connection date.
SingleRecordOwnerNeverNotified ==
    sent # <<>> =>
        LET own == Owners
        IN  \A i \in 1..Len(data) :
                (Truthy(own[i]) /\ Cardinality(GroupOf(own, i)) = 1)
                => \A k \in 1..Len(sent) : sent[k].user_email # own[i] /\ sent[k].rec # i

\* C2 witness: an owner with a single record, which should_notify passes,
\* got nothing while another owner's records were notified.
SingleStaleOwnerSkipped ==
    /\ StructuredCompleted
    /\ sent # <<>>
    /\ \E i \in 1..Len(data) :
          /\ Truthy(Owners[i])
          /\ Cardinality(GroupOf(Owners, i)) = 1
          /\ should_notify(data[i], today).ret
          /\ CallsFor(i) = {}

\* The order of the notify loops: groups in the order their first record
\* appears in the input, records of a group in input order.
FirstOf(own, i) == CHOOSE j \in GroupOf(own, i) : \A h \in GroupOf(own, i) : j <= h
Before(own, i, j) ==
    \/ FirstOf(own, i) < FirstOf(own, j)
    \/ (FirstOf(own, i) = FirstOf(own, j) /\ i < j)

\* C8: a failed transmission does not abort the rest: whichever sends fail,
\* once grouping is over and the process has ended, every eligible record
\* has had exactly one send attempt, in the order of a run without
\* failures, and no failed send was repeated.
FailedSendDoesNotAbort ==
    (Terminated /\ gi > Len(data)) =>
        LET own == Owners
        IN  /\ { sent[k].rec : k \in 1..Len(sent) } = { i \in 1..Len(data) : Eligible(own, i) }
            /\ \A k, l \in 1..Len(sent) : k < l => Before(own, sent[k].rec, sent[l].rec)

\* C8 witness: a send failed and a later send was still attempted and delivered.
SendAfterFailedSend ==
    /\ pc = "done"
    /\ \E k, l \in 1..Len(sent) : k < l /\ ~sent[k].delivered /\ sent[l].delivered

\* C7: whatever error the structured pipeline raises, the tabular pipeline
\* still runs afterwards and writes the output artifact; no error is fatal
\* to the whole process.
TabularAlwaysRuns ==
    Terminated => (pc = "done" /\ runs >= 1)

(***************************************************************************)
(* Owner email resolution alone: the first program groups a one-record     *)
(* input.                                                                  *)
(***************************************************************************)
Absent == [t |-> "absent"]   \* marks a key the record does not have

DoeJohn == <<"D","o","e",","," ","J","o","h","n">>
JohnDoeEmail == <<"j","o","h","n",".","d","o","e","@","t","r","o","w","e","p","r","i","c","e",".","c","o","m">>

OwnerEmails == { Absent, NoneVal, Str(<<>>), Str(JaneEmail), Str(BobEmail) }
OwnerNames ==
    { Absent, NoneVal,
      Str(<<>>),
      Str(<<"D","o","e",","," ","J","o","h","n">>),
      Str(<<"D","o","e",",","J","o","h","n">>),
      Str(<<" "," ","D","o","e"," ",","," "," ","J","o","h","n"," "," ">>),
      Str(<<"M","a","d","o","n","n","a">>),
      Str(<<"D","O","E",","," ","J","O","H","N">>),
      Str(<<"D","o","e",","," ","J","o","h","n"," ","Q">>),
      Str(<<" "," "," ">>),
      Str(<<",">>),
      Str(<<"J","o","h","n"," ","D","o","e">>),
      Str(<<"\t","D","o","e",",","\t","J","o","h","n">>),
      Str(<<","," ","J","o","h","n">>) }

Entry(email, name) ==
    LET keys == {"hostname"}
                \cup (IF email = Absent THEN {} ELSE {"vdi_owner_email"})
                \cup (IF name = Absent THEN {} ELSE {"vdi_owner_name"})
    IN  [k \in keys |-> IF k = "vdi_owner_email" THEN email
                        ELSE IF k = "vdi_owner_name" THEN name
                        ELSE Str(HostA)]

InitEmail ==
    /\ prog = 1
    /\ pc = "group"
    /\ today = RunClock
    /\ \E e \in OwnerEmails, n \in OwnerNames :
          /\ data = <<Entry(e, n)>>
          /\ json_file = [readable |-> TRUE, content |-> <<Entry(e, n)>>]
    /\ gi = 1 /\ user_map = <<>> /\ ui = 1 /\ li = 1 /\ sent = <<>>
    /\ csv_file = NoCsv
    /\ ri = 1 /\ users = <<>> /\ wi = 1 /\ out = <<>> /\ prev_out = <<>> /\ runs = 0
    /\ probe = [kind |-> "none", days |-> 0]
    /\ result = NoResult

NextEmail ==
    \/ GroupStep
    \/ GroupEnd

SpecEmail == InitEmail /\ [][NextEmail]_vars

\* Number of whitespace-separated tokens of a text, counted by token starts.
TokenCount(s) ==
    Cardinality({ i \in 1..Len(s) :
                    s[i] \notin Whitespace /\ (i = 1 \/ s[i - 1] \in Whitespace) })

\* C5: a non-empty explicit email is the owner key unchanged, whatever the
\* name; without one, the name "Doe, John" resolves to
\* john.doe@troweprice.com; without one, an absent name or a name of fewer
\* than two tokens resolves to nothing and the record joins no owner group.
EmailResolution ==
    (pc \in {"group", "notify"} /\ gi = 2) =>
        LET explicit == Get(data[1], "vdi_owner_email")
            name     == Get(data[1], "vdi_owner_name")
        IN  /\ Truthy(explicit) =>
                  user_map = << [email |-> explicit, ldds |-> <<1>>] >>
            /\ (~Truthy(explicit) /\ name = Str(DoeJohn)) =>
                  user_map = << [email |-> Str(JohnDoeEmail), ldds |-> <<1>>] >>
            /\ (~Truthy(explicit) /\ (~IsStr(name) \/ TokenCount(name.s) < 2)) =>
                  user_map = <<>>

\* C5 witness: the record named "Doe, John" with no email was grouped under
\* john.doe@troweprice.com.
DoeJohnResolved ==
    /\ pc = "notify"
    /\ "vdi_owner_email" \notin DOMAIN data[1]
    /\ Get(data[1], "vdi_owner_name") = Str(DoeJohn)
    /\ Len(user_map) = 1
    /\ user_map[1].email = Str(JohnDoeEmail)

(***************************************************************************)
(* The tabular pipeline alone, run repeatedly on one input file            *)
(***************************************************************************)
\* Longest tabular input, in rows.
MaxRows == 2

Carol == <<"c","a","r","o","l">>
ThreeHosts == <<"h","o","s","t","A",",","h","o","s","t","B",",","h","o","s","t","C">>

\* DictReader rows.  A short row has None for the missing field; a file
\* whose header lacks a column gives rows without that key.
Rows ==
    { CsvRow(Str(Alice), Str(TwoHosts)),
      CsvRow(Str(Alice), Str(<<"h","o","s","t","C",",","h","o","s","t","A">>)),
      CsvRow(Str(<<" ","b","o","b"," ">>), Str(ThreeHosts)),
      CsvRow(Str(Carol), Str(HostA)),
      CsvRow(Str(Carol), Str(<<" ","h","o","s","t","A"," ",","," ",",">>)),
      CsvRow(Str(<<" "," ">>), Str(TwoHosts)),
      CsvRow(Str(<<"d","a","v","e">>), Str(<<"h","o","s","t","A",",",",","h","o","s","t","B">>)),
      CsvRow(Str(<<"e","r","i","n">>), NoneVal),
      "Hostname List" :> Str(TwoHosts),
      "User" :> Str(<<"f","r","a","n","k">>) }

CsvFiles ==
    {NoCsv} \cup { [readable |-> TRUE, rows |-> r] : r \in SeqsUpTo(Rows, MaxRows) }

\* What an earlier run, on whatever input, may have left in the artifact.
Leftovers == { <<>>, <<"--- EMAIL TO: ", "z", " ---\n">> }

InitCsv ==
    /\ prog \in {1, 2}
    /\ pc = "load_csv"
    /\ today = RunClock
    /\ json_file = NoFile
    /\ data = <<>> /\ gi = 1 /\ user_map = <<>> /\ ui = 1 /\ li = 1 /\ sent = <<>>
    /\ csv_file \in CsvFiles
    /\ ri = 1 /\ users = <<>> /\ wi = 1
    /\ out \in Leftovers
    /\ prev_out = <<>>
    /\ runs = 0
    /\ probe = [kind |-> "none", days |-> 0]
    /\ result = NoResult

NextCsv ==
    \/ LoadCsvRow
    \/ LoadCsvEnd
    \/ WriteOpen
    \/ WriteBlock
    \/ WriteEnd
    \/ Rerun

SpecCsv == InitCsv /\ [][NextCsv]_vars

\* The loader has returned.
Loaded == pc \in {"loaded", "writing", "done"}

RowUser(i) == GetDefault(csv_file.rows[i], "User", Str(<<>>))
RowHosts(i) == GetDefault(csv_file.rows[i], "Hostname List", Str(<<>>))
WellFormed(i) == IsStr(RowUser(i)) /\ IsStr(RowHosts(i))

\* The rows name pairwise distinct users, so that "the row is retained" can
\* only mean one entry of the mapping.
DistinctUsers ==
    \A i, j \in 1..Len(csv_file.rows) :
        (i # j /\ IsStr(RowUser(i)) /\ IsStr(RowUser(j)))
            => Strip(RowUser(i).s) # Strip(RowUser(j).s)

\* Row i is in the returned mapping, with its trimmed hostnames in order.
Retained(i) ==
    /\ WellFormed(i)
    /\ \E k \in 1..Len(users) :
          /\ users[k].user = Strip(RowUser(i).s)
          /\ users[k].hostnames = Hostnames(RowHosts(i).s)

\* Row i has a user that is non-empty once trimmed and more than one
\* hostname once split on commas, trimmed and cleared of empty tokens.
ShouldBeRetained(i) ==
    /\ WellFormed(i)
    /\ Strip(RowUser(i).s) # <<>>
    /\ Len(Hostnames(RowHosts(i).s)) > 1

\* C6: the loader retains a row iff its user field is non-empty after
\* trimming and its hostname list has more than one entry; the retained
\* value is the list of trimmed hostnames in the order given.  (Stated for
\* files whose rows name pairwise distinct users.)
RetainsExactlyQualifyingRows ==
    (Loaded /\ csv_file.readable /\ DistinctUsers) =>
        \A i \in 1..Len(csv_file.rows) : Retained(i) <=> ShouldBeRetained(i)

\* C9: a malformed row is skipped, not fatal to the rest of the file: every
\* well-formed qualifying row after a row that raised is in the returned
\* mapping; and a loader that failed as a whole returns an empty mapping.
MalformedRowIsSkipped ==
    Loaded =>
        /\ ~csv_file.readable => users = <<>>
        /\ (csv_file.readable /\ DistinctUsers) =>
              \A i, j \in 1..Len(csv_file.rows) :
                  (i < j /\ ~WellFormed(i) /\ ShouldBeRetained(j)) => Retained(j)

\* One message block per entry of the mapping, each followed by the separator.
RECURSIVE Artifact(_)
Artifact(d) ==
    IF d = <<>> THEN <<>>
    ELSE <<Piece1>> \o d[1].user \o <<Piece2>> \o d[1].user \o <<Piece3>>
            \o Join(d[1].hostnames, <<",", " ">>) \o <<Piece4, Separator>>
            \o Artifact(Tail(d))

\* C10: after any number of consecutive runs of the tabular pipeline on the
\* same input the artifact holds what one run leaves: one message block per
\* retained user, each followed by the blank-line separator, and nothing of
\* earlier runs.
RerunLeavesSameArtifact ==
    pc = "done" =>
        /\ out = Artifact(users)
        /\ runs >= 2 => out = prev_out

\* C10 witness: a second run over a file with a retained user ended with the
\* artifact it started from.
SecondRunSameContent ==
    /\ pc = "done"
    /\ runs = 2
    /\ users # <<>>
    /\ out # <<>>
    /\ out = prev_out

====
